---- MODULE Spec2Model ----
(***************************************************************************)
(* Model of the Zed workspace search plugin (src/main.py): the pure path   *)
(* helpers, _load_workspaces, query, open_workspace, context_menu and      *)
(* open_in_zed.                                                            *)
(*                                                                         *)
(* Python strings are sequences of one-character strings, so that          *)
(* substring search, prefix tests, case mapping and formatting are         *)
(* computed character by character as the code computes them.              *)
(***************************************************************************)
EXTENDS Integers, Sequences, FiniteSets, TLC

\* ---------------------------------------------------------------- bounds

\* Longest string handed to normalize in the direct-call specification.
MaxLen == 4
\* Most rows the workspace table holds.
MaxRows == 2

\* ------------------------------------------------- values that are no text

\* Python None / SQL NULL in a text or id position: a token that is no character.
None == <<"None">>
\* A value that is not a str (a BLOB column comes back as bytes).
Blob == <<"Blob">>
\* Python None / SQL NULL in the integer port column.
NoPort == -1

IsStr(x) == x \notin {None, Blob}

\* Python truth value of a str-or-None: None and "" are false.
Truthy(x) == x # None /\ x # <<>>

\* Python truth value of an int-or-None: None and 0 are false.
TruthyPort(n) == n # NoPort /\ n # 0

\* ------------------------------------------------------------- characters

UpperSeq == <<"A", "B", "C", "D", "E", "F", "G", "H", "I", "J", "K", "L", "M",
              "N", "O", "P", "Q", "R", "S", "T", "U", "V", "W", "X", "Y", "Z">>
LowerSeq == <<"a", "b", "c", "d", "e", "f", "g", "h", "i", "j", "k", "l", "m",
              "n", "o", "p", "q", "r", "s", "t", "u", "v", "w", "x", "y", "z">>
DigitSeq == <<"0", "1", "2", "3", "4", "5", "6", "7", "8", "9">>

UpperChars == {UpperSeq[i] : i \in 1..26}
LowerChars == {LowerSeq[i] : i \in 1..26}

LowerTable == [c \in UpperChars |-> LowerSeq[CHOOSE i \in 1..26 : UpperSeq[i] = c]]
UpperTable == [c \in LowerChars |-> UpperSeq[CHOOSE i \in 1..26 : LowerSeq[i] = c]]

Lower(c) == IF c \in UpperChars THEN LowerTable[c] ELSE c
Upper(c) == IF c \in LowerChars THEN UpperTable[c] ELSE c

\* Code points of the characters that are neither letters nor digits.
PunctOrd == (" " :> 32) @@ ("(" :> 40) @@ (")" :> 41) @@ ("-" :> 45) @@
            ("." :> 46) @@ ("/" :> 47) @@ (":" :> 58) @@ ("<" :> 60) @@
            (">" :> 62) @@ ("@" :> 64) @@ ("\\" :> 92)

Ord(c) ==
    IF c \in UpperChars THEN 64 + (CHOOSE i \in 1..26 : UpperSeq[i] = c)
    ELSE IF c \in LowerChars THEN 96 + (CHOOSE i \in 1..26 : LowerSeq[i] = c)
    ELSE IF \E i \in 1..10 : DigitSeq[i] = c
         THEN 47 + (CHOOSE i \in 1..10 : DigitSeq[i] = c)
    ELSE PunctOrd[c]

IsSpace(c) == c \in {" ", "\t", "\n"}

\* ---------------------------------------------------------------- strings

\* str.lower()
LowerStr(s) == [i \in 1..Len(s) |-> Lower(s[i])]

\* str.startswith(pre)
StartsWith(s, pre) == Len(s) >= Len(pre) /\ SubSeq(s, 1, Len(pre)) = pre

\* sub in s
Contains(s, sub) ==
    \E i \in 0..(Len(s) - Len(sub)) : SubSeq(s, i + 1, i + Len(sub)) = sub

RECURSIVE LStrip(_)
LStrip(s) == IF s # <<>> /\ IsSpace(s[1]) THEN LStrip(Tail(s)) ELSE s

RECURSIVE RStrip(_)
RStrip(s) ==
    IF s # <<>> /\ IsSpace(s[Len(s)]) THEN RStrip(SubSeq(s, 1, Len(s) - 1)) ELSE s

\* str.strip()
Strip(s) == RStrip(LStrip(s))

\* s.rstrip("/")
RECURSIVE RStripSlash(_)
RStripSlash(s) ==
    IF s # <<>> /\ s[Len(s)] = "/" THEN RStripSlash(SubSeq(s, 1, Len(s) - 1)) ELSE s

\* p.replace("\\", "/")
ReplaceBackslash(s) == [i \in 1..Len(s) |-> IF s[i] = "\\" THEN "/" ELSE s[i]]

\* One s.replace("//", "/"): left to right, occurrences do not overlap.
RECURSIVE ReplaceDoubleSlash(_)
ReplaceDoubleSlash(s) ==
    IF Len(s) < 2 THEN s
    ELSE IF s[1] = "/" /\ s[2] = "/"
         THEN <<"/">> \o ReplaceDoubleSlash(SubSeq(s, 3, Len(s)))
         ELSE <<s[1]>> \o ReplaceDoubleSlash(Tail(s))

\* while "//" in s: s = s.replace("//", "/")
RECURSIVE CollapseSlashes(_)
CollapseSlashes(s) ==
    IF Contains(s, <<"/", "/">>) THEN CollapseSlashes(ReplaceDoubleSlash(s)) ELSE s

\* str.capitalize(): first character upper-cased, the rest lower-cased.
Capitalize(s) ==
    IF s = <<>> THEN s ELSE <<Upper(s[1])>> \o LowerStr(Tail(s))

\* f"{n}" of a non-negative int: its decimal digits.
RECURSIVE IntToStr(_)
IntToStr(n) ==
    IF n < 10 THEN <<DigitSeq[n + 1]>>
    ELSE IntToStr(n \div 10) \o <<DigitSeq[(n % 10) + 1]>>

S_None == <<"N", "o", "n", "e">>
\* f"{x}" of a str-or-None.
Fmt(x) == IF x = None THEN S_None ELSE x

\* ---------------------------------------------------------- program text

ZED_DB_PATH == <<"C", ":", "\\", "U", "s", "e", "r", "s", "\\", "u", "\\", "A", "p", "p", "D", "a", "t", "a", "\\", "L", "o", "c", "a", "l", "\\", "Z", "e", "d", "\\", "d", "b", "\\", "0", "-", "s", "t", "a", "b", "l", "e", "\\", "d", "b", ".", "s", "q", "l", "i", "t", "e">>
S_home == <<"/", "h", "o", "m", "e", "/">>
S_mnt == <<"/", "m", "n", "t", "/">>
S_ssh_scheme == <<"s", "s", "h", ":", "/", "/">>
S_zed == <<"z", "e", "d">>
S_wsl == <<"w", "s", "l">>
S_file_root == <<"f", "i", "l", "e", ":", "/", "/", "/">>
S_err_prefix == <<"<", "E", "r", "r", "o", "r", " ", "r", "e", "a", "d", "i", "n", "g", " ", "D", "B", ":", " ">>
S_err_suffix == <<">">>
S_no_workspaces == <<"N", "o", " ", "Z", "e", "d", " ", "w", "o", "r", "k", "s", "p", "a", "c", "e", "s", " ", "f", "o", "u", "n", "d">>
S_ico == <<"a", "s", "s", "e", "t", "s", "/", "z", "e", "d", ".", "p", "n", "g">>
S_ssh_open == <<" ", "(", "S", "S", "H", ":", " ">>
S_wsl_suffix == <<" ", "(", "W", "S", "L", ")">>
S_open_in_zed == <<"O", "p", "e", "n", " ", "i", "n", " ", "Z", "e", "d", " ">>
S_lbl_ssh_open == <<"(", "S", "S", "H", ":", " ">>
S_lbl_wsl == <<"(", "W", "S", "L", ")">>
S_lbl_windows == <<"(", "W", "i", "n", "d", "o", "w", "s", ")">>

\* ------------------------------------------------------------ pure helpers

is_wsl_path(p) == StartsWith(p, S_home) \/ StartsWith(p, S_mnt)

\* Mutant of build_ssh_uri: the port is tested against None only, so 0 is written.
build_ssh_uri_PortNotNone(host, path, user, port) ==
    LET u1 == S_ssh_scheme
        u2 == IF Truthy(user) THEN u1 \o user \o <<"@">> ELSE u1
        u3 == u2 \o host
        u4 == IF port # NoPort THEN u3 \o <<":">> \o IntToStr(port) ELSE u3
    IN  u4 \o path

build_ssh_uri(host, path, user, port) ==
    LET u1 == S_ssh_scheme
        u2 == IF Truthy(user) THEN u1 \o user \o <<"@">> ELSE u1
        u3 == u2 \o host
        u4 == IF TruthyPort(port) THEN u3 \o <<":">> \o IntToStr(port) ELSE u3
    IN  u4 \o path

\* Mutant of normalize: "//" is replaced once, not until none is left.
normalize_OnePass(p) ==
    IF ~IsStr(p) THEN <<>>
    ELSE LET s1 == ReplaceBackslash(p)
             s2 == ReplaceDoubleSlash(s1)
             s3 == IF Len(s2) > 1 /\ s2[Len(s2)] = "/" THEN RStripSlash(s2) ELSE s2
         IN  LowerStr(s3)

normalize(p) ==
    IF ~IsStr(p) THEN <<>>
    ELSE LET s1 == ReplaceBackslash(p)
             s2 == CollapseSlashes(s1)
             s3 == IF Len(s2) > 1 /\ s2[Len(s2)] = "/" THEN RStripSlash(s2) ELSE s2
         IN  LowerStr(s3)

\* ---------------------------------------------------- pathlib (WindowsPath)
\* The plugin runs on Windows (ZED_DB_PATH, CREATE_NO_WINDOW), so Path is
\* WindowsPath: both "/" and "\" separate components, a leading "X:" is the
\* drive, empty and "." components are dropped.  UNC prefixes (two leading
\* separators) are not modelled; no path of the model starts with one.

IsSep(c) == c \in {"/", "\\"}

PathDrive(p) == IF Len(p) >= 2 /\ p[2] = ":" THEN SubSeq(p, 1, 2) ELSE <<>>

PathRest(p) == SubSeq(p, Len(PathDrive(p)) + 1, Len(p))

\* The components of s, split at separators, in order (empty ones included).
RECURSIVE SplitSep(_, _)
SplitSep(s, cur) ==
    IF s = <<>> THEN <<cur>>
    ELSE IF IsSep(s[1]) THEN <<cur>> \o SplitSep(Tail(s), <<>>)
    ELSE SplitSep(Tail(s), cur \o <<s[1]>>)

PathParts(p) ==
    SelectSeq(SplitSep(PathRest(p), <<>>), LAMBDA c : c # <<>> /\ c # <<".">>)

\* Path(p).name
PathName(p) ==
    LET parts == PathParts(p)
    IN  IF parts = <<>> THEN <<>> ELSE parts[Len(parts)]

RECURSIVE JoinParts(_)
JoinParts(parts) ==
    IF parts = <<>> THEN <<>>
    ELSE IF Len(parts) = 1 THEN parts[1]
    ELSE parts[1] \o <<"\\">> \o JoinParts(Tail(parts))

\* str(Path(p))
PathStr(p) ==
    LET rest == PathRest(p)
        root == IF rest # <<>> /\ IsSep(rest[1]) THEN <<"\\">> ELSE <<>>
        s    == PathDrive(p) \o root \o JoinParts(PathParts(p))
    IN  IF s = <<>> THEN <<".">> ELSE s

\* ------------------------------------------------------- _load_workspaces

\* The literal rc_kind is compared with.
K_ssh == <<"s", "s", "h">>

\* Mutant of Usable: the empty path is not skipped.
Usable_KeepEmpty(row) == IsStr(row.path)

\* if not path or not isinstance(path, str): continue
Usable(row) == Truthy(row.path) /\ IsStr(row.path)

\* The record the loop builds for one usable row.
workspace_data(row) ==
    LET is_ssh == row.kind = K_ssh /\ row.host # None
        is_wsl == ~is_ssh /\ is_wsl_path(row.path)
    IN  [id         |-> row.id,
         path       |-> row.path,
         normalized |-> normalize(row.path),
         is_wsl     |-> is_wsl,
         is_ssh     |-> is_ssh,
         ssh_host   |-> IF is_ssh THEN row.host ELSE None,
         ssh_user   |-> IF is_ssh THEN row.user ELSE None,
         ssh_port   |-> IF is_ssh THEN row.port ELSE NoPort]

\* Mutant of PutNormalized: a later record of equal length takes the place too.
PutNormalized_ReplaceOnTie(m, w) ==
    IF \A i \in 1..Len(m) : m[i].normalized # w.normalized
    THEN Append(m, w)
    ELSE [i \in 1..Len(m) |->
            IF m[i].normalized = w.normalized /\ Len(w.path) <= Len(m[i].path)
            THEN w ELSE m[i]]

\* A dict in insertion order is the sequence of its values; each value holds
\* its own key (normalized, id).  A later record takes the place of the one
\* stored under its key only when its raw path is strictly shorter.
PutNormalized(m, w) ==
    IF \A i \in 1..Len(m) : m[i].normalized # w.normalized
    THEN Append(m, w)
    ELSE [i \in 1..Len(m) |->
            IF m[i].normalized = w.normalized /\ Len(w.path) < Len(m[i].path)
            THEN w ELSE m[i]]

PutWorkspaceId(m, w) ==
    IF \A i \in 1..Len(m) : m[i].id # w.id
    THEN Append(m, w)
    ELSE [i \in 1..Len(m) |->
            IF m[i].id = w.id /\ Len(w.path) < Len(m[i].path) THEN w ELSE m[i]]

\* The for loop over rows: the two dicts after rows[1..n].
RECURSIVE LoadLoop(_, _)
LoadLoop(rows, n) ==
    IF n = 0 THEN [by_normalized |-> <<>>, by_workspace_id |-> <<>>]
    ELSE LET prev == LoadLoop(rows, n - 1)
             row  == rows[n]
         IN  IF ~Usable(row) THEN prev
             ELSE LET w == workspace_data(row)
                  IN  [by_normalized   |-> PutNormalized(prev.by_normalized, w),
                       by_workspace_id |-> PutWorkspaceId(prev.by_workspace_id, w)]

\* a < b for str: by code point, a proper prefix first.
RECURSIVE StrLess(_, _)
StrLess(a, b) ==
    IF b = <<>> THEN FALSE
    ELSE IF a = <<>> THEN TRUE
    ELSE IF a[1] = b[1] THEN StrLess(Tail(a), Tail(b))
    ELSE Ord(a[1]) < Ord(b[1])

\* key=lambda r: Path(r["path"]).name.lower()
SortKey(r) == LowerStr(PathName(r.path))

\* r put into a list sorted by SortKey, after every element whose key is not
\* greater (list.sort is stable).
InsertSorted(sorted, r) ==
    LET n == Cardinality({i \in 1..Len(sorted) :
                             ~StrLess(SortKey(r), SortKey(sorted[i]))})
    IN  SubSeq(sorted, 1, n) \o <<r>> \o SubSeq(sorted, n + 1, Len(sorted))

RECURSIVE SortByName(_, _)
SortByName(rs, n) ==
    IF n = 0 THEN <<>> ELSE InsertSorted(SortByName(rs, n - 1), rs[n])

\* The record returned when reading the database raises e.
ErrorRecord(e) ==
    [id     |-> -1,
     path   |-> S_err_prefix \o e \o S_err_suffix,
     is_wsl |-> FALSE,
     is_ssh |-> FALSE]

\* results = by_normalized values if by_normalized else by_workspace_id values
PreferNormalized(maps) ==
    IF maps.by_normalized # <<>> THEN maps.by_normalized ELSE maps.by_workspace_id

_load_workspaces(d) ==
    IF ~d.exists THEN <<>>
    ELSE IF d.error # None THEN <<ErrorRecord(d.error)>>
    ELSE LET results == PreferNormalized(LoadLoop(d.rows, Len(d.rows)))
         IN  SortByName(results, Len(results))

\* ------------------------------------------------------------------ query

S_remote == <<"r", "e", "m", "o", "t", "e">>
M_open_workspace == <<"o", "p", "e", "n", "_", "w", "o", "r", "k", "s", "p", "a", "c", "e">>
M_open_in_zed == <<"o", "p", "e", "n", "_", "i", "n", "_", "z", "e", "d">>

\* dict.get(key, default)
Get(w, key, default) == IF key \in DOMAIN w THEN w[key] ELSE default

\* q = query.lower().strip()
QueryText(s) == Strip(LowerStr(s))

\* Mutant of Filter: the path is not lower-cased before the search.
Filter_CaseSensitive(ws, q) ==
    IF q # <<>> THEN SelectSeq(ws, LAMBDA w : Contains(w.path, q))
    ELSE ws

\* [w for w in workspaces if q in w["path"].lower()] if q else workspaces
Filter(ws, q) ==
    IF q # <<>> THEN SelectSeq(ws, LAMBDA w : Contains(LowerStr(w.path), q))
    ELSE ws

\* Mutant of DisplayName: only the first character is changed.
DisplayName_KeepCase(w) ==
    LET name == IF PathName(w.path) # <<>> THEN PathName(w.path) ELSE w.path
    IN  IF name # <<>> THEN <<Upper(name[1])>> \o Tail(name) ELSE name

\* name = Path(w["path"]).name or w["path"]; name = name.capitalize()
DisplayName(w) ==
    LET name == IF PathName(w.path) # <<>> THEN PathName(w.path) ELSE w.path
    IN  IF name # <<>> THEN Capitalize(name) ELSE name

DisplayTitle(w) ==
    IF Get(w, "is_ssh", FALSE)
    THEN DisplayName(w) \o S_ssh_open \o Fmt(Get(w, "ssh_host", S_remote)) \o <<")">>
    ELSE IF Get(w, "is_wsl", FALSE) THEN DisplayName(w) \o S_wsl_suffix
    ELSE DisplayName(w)

ActionParameters(w) ==
    <<w.path, Get(w, "is_ssh", FALSE), Get(w, "ssh_host", None),
      Get(w, "ssh_user", None), Get(w, "ssh_port", NoPort)>>

Present(w) ==
    [Title         |-> DisplayTitle(w),
     SubTitle      |-> w.path,
     IcoPath       |-> S_ico,
     JsonRPCAction |-> [method |-> M_open_workspace, parameters |-> ActionParameters(w)],
     ContextData   |-> ActionParameters(w)]

NotFound ==
    [Title    |-> S_no_workspaces,
     SubTitle |-> ZED_DB_PATH,
     IcoPath  |-> S_ico]

\* key = (r["Title"].strip().lower(), r["SubTitle"].strip().lower())
UniqueKey(r) == <<LowerStr(Strip(r.Title)), LowerStr(Strip(r.SubTitle))>>

\* The first n results with every entry whose key was seen before dropped.
RECURSIVE Unique(_, _)
Unique(rs, n) ==
    IF n = 0 THEN <<>>
    ELSE IF \E j \in 1..(n - 1) : UniqueKey(rs[j]) = UniqueKey(rs[n])
         THEN Unique(rs, n - 1)
         ELSE Append(Unique(rs, n - 1), rs[n])

\* Mutant of QueryResults: the empty list is filtered and presented like any other.
QueryResults_NoEmptyCheck(ws, s) ==
    LET filt == Filter(ws, QueryText(s))
        res  == [i \in 1..Len(filt) |-> Present(filt[i])]
    IN  Unique(res, Len(res))

\* What query returns for the loaded list ws and the raw query string s.
QueryResults(ws, s) ==
    IF ws = <<>> THEN <<NotFound>>
    ELSE LET filt == Filter(ws, QueryText(s))
             res  == [i \in 1..Len(filt) |-> Present(filt[i])]
         IN  Unique(res, Len(res))

\* ------------------------------------------------------------- launching

\* subprocess.Popen(argv, shell=False, creationflags=CREATE_NO_WINDOW), with
\* the branch of the handler that made the call.
Popen(branch, argv) == [call |-> "Popen", branch |-> branch, argv |-> argv]

\* webbrowser.open(url)
WebOpen(branch, url) == [call |-> "webbrowser.open", branch |-> branch, argv |-> <<url>>]

\* The calls open_workspace makes; exists is the outcome of Path(path).exists().
open_workspace(path, is_ssh, ssh_host, ssh_user, ssh_port, exists) ==
    IF is_ssh /\ Truthy(ssh_host)
    THEN <<Popen("ssh", <<S_zed, build_ssh_uri(ssh_host, path, ssh_user, ssh_port)>>)>>
    ELSE IF is_wsl_path(path)
    THEN <<Popen("wsl", <<S_wsl, S_zed, path>>)>>
    ELSE IF exists
    THEN <<Popen("local", <<S_zed, PathStr(path)>>)>>
    ELSE <<WebOpen("local", S_file_root)>>

\* The calls open_in_zed makes.
open_in_zed(path, is_ssh, ssh_host, ssh_user, ssh_port) ==
    IF is_ssh /\ Truthy(ssh_host)
    THEN <<Popen("ssh", <<S_zed, build_ssh_uri(ssh_host, path, ssh_user, ssh_port)>>)>>
    ELSE IF is_wsl_path(path)
    THEN <<Popen("wsl", <<S_wsl, S_zed, path>>)>>
    ELSE <<Popen("local", <<S_zed, path>>)>>

ContextLabel(path, is_ssh, ssh_host) ==
    IF is_ssh THEN S_lbl_ssh_open \o Fmt(ssh_host) \o <<")">>
    ELSE IF is_wsl_path(path) THEN S_lbl_wsl
    ELSE S_lbl_windows

context_menu(data) ==
    LET path     == data[1]
        is_ssh   == IF Len(data) > 1 THEN data[2] ELSE FALSE
        ssh_host == IF Len(data) > 2 THEN data[3] ELSE None
        ssh_user == IF Len(data) > 3 THEN data[4] ELSE None
        ssh_port == IF Len(data) > 4 THEN data[5] ELSE NoPort
    IN  <<[Title         |-> S_open_in_zed \o ContextLabel(path, is_ssh, ssh_host),
           SubTitle      |-> path,
           IcoPath       |-> S_ico,
           JsonRPCAction |-> [method     |-> M_open_in_zed,
                              parameters |-> <<path, is_ssh, ssh_host, ssh_user, ssh_port>>]]>>

\* ----------------------------------------------------------------- inputs

\* Raw paths the workspace table may hold.  P_home_a, P_home_a_slash, P_Home_A
\* and P_bs_home_a share one normalized key, as do P_mnt_c_Pj and
\* P_mnt_dbl_pj, and P_win_myApp and P_win_myapp_slash.
P_home_a == <<"/", "h", "o", "m", "e", "/", "a">>
P_home_a_slash == <<"/", "h", "o", "m", "e", "/", "a", "/">>
P_Home_A == <<"/", "H", "o", "m", "e", "/", "A">>
P_bs_home_a == <<"\\", "h", "o", "m", "e", "\\", "a">>
P_mnt_c_Pj == <<"/", "m", "n", "t", "/", "c", "/", "P", "j">>
P_mnt_dbl_pj == <<"/", "m", "n", "t", "/", "/", "c", "/", "p", "j">>
P_mnt == <<"/", "m", "n", "t">>
P_srv_app == <<"/", "s", "r", "v", "/", "a", "p", "p">>
P_srv_home == <<"/", "s", "r", "v", "/", "h", "o", "m", "e", "/", "a">>
P_win_myApp == <<"C", ":", "\\", "x", "\\", "m", "y", "A", "p", "p">>
P_win_myapp_slash == <<"c", ":", "/", "x", "/", "m", "y", "a", "p", "p", "/">>
P_root == <<"/">>

Paths == {P_home_a, P_home_a_slash, P_Home_A, P_bs_home_a, P_mnt_c_Pj,
          P_mnt_dbl_pj, P_mnt, P_srv_app, P_srv_home, P_win_myApp,
          P_win_myapp_slash, P_root}

\* Paths of the tables with more than one row.
GroupPaths == {P_home_a, P_home_a_slash, P_Home_A, P_bs_home_a, P_srv_app}

\* Values of the paths column that the loop skips.
BadPaths == {None, <<>>, Blob}

K_SSH_upper == <<"S", "S", "H">>
H_box1 == <<"b", "o", "x", "1">>
H_h == <<"h">>
U_dev == <<"d", "e", "v">>

\* The columns the LEFT JOIN adds: all NULL when the workspace has no
\* remote connection.
R_none     == [kind |-> None,  host |-> None,   port |-> NoPort, user |-> None]
R_ssh_full == [kind |-> K_ssh, host |-> H_box1, port |-> 2222,   user |-> U_dev]
R_ssh_bare == [kind |-> K_ssh, host |-> H_h,    port |-> NoPort, user |-> None]
R_ssh_empty_host == [kind |-> K_ssh, host |-> <<>>, port |-> 22, user |-> U_dev]
R_ssh_null_host  == [kind |-> K_ssh, host |-> None, port |-> 22, user |-> U_dev]
R_other    == [kind |-> K_SSH_upper, host |-> H_box1, port |-> 22, user |-> U_dev]

Remotes == {R_none, R_ssh_full, R_ssh_bare, R_ssh_empty_host, R_ssh_null_host, R_other}

Row(id, path, rc) ==
    [id |-> id, path |-> path, kind |-> rc.kind, host |-> rc.host,
     port |-> rc.port, user |-> rc.user]

\* Every row a one-row table may hold.
AllRows(id) ==
    {Row(id, p, rc) : p \in Paths, rc \in Remotes}
        \cup {Row(id, p, R_none) : p \in BadPaths}

\* The rows of the tables with more than one row: the paths of one key and
\* one other, the empty path, and one SSH row of the shared key.
GroupRows(id) ==
    {Row(id, p, R_none) : p \in GroupPaths \cup {<<>>}}
        \cup {Row(id, P_home_a, R_ssh_bare)}

\* Tables of n rows; the i-th row's id is one of 1..i (ids may repeat).
RECURSIVE RowSeqs(_)
RowSeqs(n) ==
    IF n = 0 THEN {<<>>}
    ELSE {Append(s, r) : s \in RowSeqs(n - 1),
                         r \in UNION {GroupRows(i) : i \in 1..n}}

Tables == {<<r>> : r \in AllRows(1)} \cup UNION {RowSeqs(n) : n \in 0..MaxRows}

\* What the database read raises.
E_locked == <<"d", "a", "t", "a", "b", "a", "s", "e", " ", "i", "s", " ", "l", "o", "c", "k", "e", "d">>
E_no_table == <<"n", "o", " ", "s", "u", "c", "h", " ", "t", "a", "b", "l", "e", ":", " ", "w", "o", "r", "k", "s", "p", "a", "c", "e", "s">>
Errors == {E_locked, E_no_table}

AbsentDb == [exists |-> FALSE, error |-> None, rows |-> <<>>]

Databases ==
    {[exists |-> TRUE, error |-> None, rows |-> rs] : rs \in Tables}
        \cup {[exists |-> TRUE, error |-> e, rows |-> <<>>] : e \in Errors}
        \cup {AbsentDb}

\* Query strings the user types.
Q_blank == <<" ", " ">>
Q_APP_padded == <<" ", "M", "y", "A", "P", "P", " ">>
Q_Home == <<"H", "o", "m", "e">>
Q_DB == <<"D", "B">>
Queries == {<<>>, Q_blank, Q_APP_padded, Q_Home, Q_DB}

\* Strings over cs of length n, and of length at most n.
RECURSIVE StringsOfLen(_, _)
StringsOfLen(cs, n) ==
    IF n = 0 THEN {<<>>}
    ELSE {Append(s, c) : s \in StringsOfLen(cs, n - 1), c \in cs}

StringsUpTo(cs, n) == UNION {StringsOfLen(cs, k) : k \in 0..n}

NormChars == {"/", "\\", "a", "A"}
NormInputs == StringsUpTo(NormChars, MaxLen) \cup {None, Blob}

\* Arguments of the direct calls of build_ssh_uri and open_workspace.
CallPaths == {P_srv_app, P_home_a, P_win_myApp, <<>>}
CallHosts == {<<>>, H_h, H_box1}
CallUsers == {None, <<>>, U_dev}
CallPorts == {NoPort, 0, 22, 2222}

\* ------------------------------------------------------------------ state

VARIABLES
    db,          \* the workspace database: exists, error raised on read, rows
    handler,     \* the handler or function that ran last
    arg,         \* its arguments
    workspaces,  \* query: what _load_workspaces returned
    filtered,    \* query: the records that passed the filter
    results,     \* the response of the last query, held by the host
    selected,    \* the presentation record the user picked (<<>> or <<r>>)
    menu,        \* the response of context_menu for the picked record
    spawned,     \* the processes and browser calls the last launch made
    ret          \* the return value of a direct call of a pure function

vars == <<db, handler, arg, workspaces, filtered, results, selected, menu, spawned, ret>>

Idle ==
    /\ handler = "init"
    /\ arg = <<>>
    /\ workspaces = <<>>
    /\ filtered = <<>>
    /\ results = <<>>
    /\ selected = <<>>
    /\ menu = <<>>
    /\ spawned = <<>>
    /\ ret = <<>>

Init == db \in Databases /\ Idle

\* query(s): load, filter, present, drop duplicate entries.
Query(s) ==
    LET ws == _load_workspaces(db)
    IN  /\ handler' = "query"
        /\ arg' = <<s>>
        /\ workspaces' = ws
        /\ filtered' = IF ws = <<>> THEN <<>> ELSE Filter(ws, QueryText(s))
        /\ results' = QueryResults(ws, s)
        /\ selected' = <<>>
        /\ menu' = <<>>
        /\ spawned' = <<>>
        /\ UNCHANGED <<db, ret>>

\* The host replays the action descriptor of results[i]: open_workspace(*parameters).
OpenWorkspace(i, exists) ==
    /\ i \in 1..Len(results)
    /\ "JsonRPCAction" \in DOMAIN results[i]
    /\ LET p == results[i].JsonRPCAction.parameters
       IN  /\ arg' = p
           /\ spawned' = open_workspace(p[1], p[2], p[3], p[4], p[5], exists)
    /\ handler' = "open_workspace"
    /\ selected' = <<results[i]>>
    /\ menu' = <<>>
    /\ UNCHANGED <<db, workspaces, filtered, results, ret>>

\* The host asks for the context menu of results[i]: context_menu(ContextData).
ContextMenu(i) ==
    /\ i \in 1..Len(results)
    /\ "ContextData" \in DOMAIN results[i]
    /\ handler' = "context_menu"
    /\ arg' = results[i].ContextData
    /\ menu' = context_menu(results[i].ContextData)
    /\ selected' = <<results[i]>>
    /\ spawned' = <<>>
    /\ UNCHANGED <<db, workspaces, filtered, results, ret>>

\* The host replays the action descriptor of the context menu entry.
OpenInZed ==
    /\ menu # <<>>
    /\ LET p == menu[1].JsonRPCAction.parameters
       IN  /\ arg' = p
           /\ spawned' = open_in_zed(p[1], p[2], p[3], p[4], p[5])
    /\ handler' = "open_in_zed"
    /\ UNCHANGED <<db, workspaces, filtered, results, selected, menu, ret>>

Next ==
    \/ \E s \in Queries : Query(s)
    \/ \E i \in 1..MaxRows, exists \in BOOLEAN : OpenWorkspace(i, exists)
    \/ \E i \in 1..MaxRows : ContextMenu(i)
    \/ OpenInZed

Spec == Init /\ [][Next]_vars

\* ------------------------------------------- direct calls of the functions

InitCalls == db = AbsentDb /\ Idle

CallNormalize(p) ==
    /\ handler' = "normalize"
    /\ arg' = <<p>>
    /\ ret' = normalize(p)
    /\ spawned' = <<>>
    /\ UNCHANGED <<db, workspaces, filtered, results, selected, menu>>

CallBuildSshUri(host, path, user, port) ==
    /\ handler' = "build_ssh_uri"
    /\ arg' = <<host, path, user, port>>
    /\ ret' = build_ssh_uri(host, path, user, port)
    /\ spawned' = <<>>
    /\ UNCHANGED <<db, workspaces, filtered, results, selected, menu>>

CallOpenWorkspace(path, is_ssh, host, user, port, exists) ==
    /\ handler' = "open_workspace"
    /\ arg' = <<path, is_ssh, host, user, port>>
    /\ spawned' = open_workspace(path, is_ssh, host, user, port, exists)
    /\ ret' = <<>>
    /\ UNCHANGED <<db, workspaces, filtered, results, selected, menu>>

NextCalls ==
    \/ \E p \in NormInputs : CallNormalize(p)
    \/ \E host \in CallHosts, path \in CallPaths, user \in CallUsers, port \in CallPorts :
          CallBuildSshUri(host, path, user, port)
    \/ \E path \in CallPaths, is_ssh \in BOOLEAN, host \in CallHosts \cup {None},
          user \in CallUsers, port \in CallPorts, exists \in BOOLEAN :
          CallOpenWorkspace(path, is_ssh, host, user, port, exists)

SpecCalls == InitCalls /\ [][NextCalls]_vars

\* ===================================================================
\* Properties
\* ===================================================================

\* The database was read without error.
DbRead == db.exists /\ db.error = None

\* The rows the loop does not skip, stated on the row itself.
HasPath(row) == row.path \notin {None, Blob, <<>>}

Range(s) == {s[i] : i \in DOMAIN s}

\* ------------------------------------------------------------------ C1
\* The classification the claim gives a row.
ClaimedSsh(row) == row.kind = K_ssh /\ row.host \notin {None, <<>>}
ClaimedWsl(row) ==
    ~ClaimedSsh(row) /\ (StartsWith(row.path, S_home) \/ StartsWith(row.path, S_mnt))

\* C1: every record of the list _load_workspaces returns comes from a row with
\* a usable path, and is SSH iff the row's kind is "ssh" and its host is
\* non-empty, never SSH and WSL at once, and WSL iff it is not SSH and its raw
\* path starts with /home/ or /mnt/.
CE_C1 ==
    (handler = "query" /\ DbRead) =>
        \A w \in Range(workspaces) :
            \E row \in Range(db.rows) :
                /\ HasPath(row)
                /\ row.id = w.id /\ row.path = w.path
                /\ w.is_ssh = ClaimedSsh(row)
                /\ ~(w.is_ssh /\ w.is_wsl)
                /\ w.is_wsl = ClaimedWsl(row)

\* ------------------------------------------------------------------ C2
\* The rows with a usable path, in fetch order.
UsableRows == SelectSeq(db.rows, HasPath)

\* The position in rs of the representative of key k: the first row of the
\* shortest raw path among the rows with that key.
Representative(rs, k) ==
    CHOOSE j \in DOMAIN rs :
        /\ normalize(rs[j].path) = k
        /\ \A j2 \in DOMAIN rs :
              normalize(rs[j2].path) = k =>
                  \/ Len(rs[j].path) < Len(rs[j2].path)
                  \/ (Len(rs[j].path) = Len(rs[j2].path) /\ j <= j2)

CE_C3 ==
    (/\ handler = "query" /\ DbRead /\ db.rows # <<>>
     /\ \A row \in Range(db.rows) : normalize(row.path) = <<>>) =>
        /\ Len(workspaces) = Cardinality({row.id : row \in Range(db.rows)})
        /\ workspaces # <<>>
        /\ results # <<NotFound>>

\* C3 as amended: the list is empty, and query answers "not found", exactly
\* when no row has a usable path (rows with an empty or non-string path are
\* skipped); and the grouping by id is never the one returned, since it is
\* empty whenever the grouping by normalized key is.
Thm_C3 ==
    (handler = "query" /\ DbRead) =>
        LET maps == LoadLoop(db.rows, Len(db.rows))
        IN  /\ (workspaces = <<>>) = (UsableRows = <<>>)
            /\ (results = <<NotFound>>) = (UsableRows = <<>>)
            /\ (maps.by_normalized = <<>>) = (maps.by_workspace_id = <<>>)
            /\ (maps.by_normalized = <<>>) = (UsableRows = <<>>)

\* Two rows of different ids, both with the empty path: nothing is returned.
Wit_C3 ==
    /\ handler = "query"
    /\ db.rows = <<Row(1, <<>>, R_none), Row(2, <<>>, R_none)>>
    /\ workspaces = <<>>
    /\ results = <<NotFound>>

\* ------------------------------------------------------------------ C4
\* C4: when reading the database fails, query returns for every query string
\* exactly one record carrying the error description, and that record has no
\* action descriptor.
CE_C4 ==
    (handler = "query" /\ db.exists /\ db.error # None) =>
        /\ Len(results) = 1
        /\ Contains(results[1].SubTitle, db.error)
        /\ "JsonRPCAction" \notin DOMAIN results[1]

\* ------------------------------------------------------------------ C5
\* No record is fetched: the file is absent, the table is empty, or every row
\* is skipped.
NothingFetched ==
    \/ ~db.exists
    \/ (db.error = None /\ \A row \in Range(db.rows) : ~HasPath(row))

\* C5: when nothing is fetched, query returns for every query string exactly
\* one record, whose subtitle is the database location and which has neither
\* an action descriptor nor context data.
Thm_C5 ==
    (handler = "query" /\ NothingFetched) =>
        /\ Len(results) = 1
        /\ results[1].SubTitle = ZED_DB_PATH
        /\ "JsonRPCAction" \notin DOMAIN results[1]
        /\ "ContextData" \notin DOMAIN results[1]

\* The only row is skipped and the user typed a query.
Wit_C5 ==
    /\ handler = "query"
    /\ arg = <<Q_Home>>
    /\ db.exists /\ db.rows = <<Row(1, Blob, R_none)>>
    /\ results = <<NotFound>>

\* ------------------------------------------------------------------ C6
\* s occurs in p when letter case is ignored.
OccursIgnoringCase(s, p) ==
    \E off \in 0..(Len(p) - Len(s)) :
        \A k \in 1..Len(s) : Lower(p[off + k]) = Lower(s[k])

\* C6: the records query presents are, in the order of the list loaded, those
\* whose raw path holds the trimmed query ignoring case; all of them when the
\* trimmed query is empty.
Thm_C6 ==
    (handler = "query" /\ workspaces # <<>>) =>
        LET typed == Strip(arg[1])
        IN  /\ filtered = SelectSeq(workspaces,
                                    LAMBDA w : OccursIgnoringCase(typed, w.path))
            /\ (typed = <<>> => filtered = workspaces)

\* A padded, mixed-case query matches a path in another case; another record
\* of the list is dropped.
Wit_C6 ==
    /\ handler = "query"
    /\ arg = <<Q_Home>>
    /\ Len(workspaces) = 2
    /\ Len(filtered) = 1
    /\ filtered[1].path = P_bs_home_a

\* ------------------------------------------------------------------ C7
X_scenario3 == <<"s", "s", "h", ":", "/", "/", "d", "e", "v", "@", "b", "o", "x", "1", ":", "2", "2", "2", "2", "/", "s", "r", "v", "/", "a", "p", "p">>

\* ssh://[user@]host[:port]path
ExpectedUri(host, path, user, port) ==
    S_ssh_scheme
        \o (IF user \in {None, <<>>} THEN <<>> ELSE user \o <<"@">>)
        \o host
        \o (IF port \in {NoPort, 0} THEN <<>> ELSE <<":">> \o IntToStr(port))
        \o path

\* C7: build_ssh_uri returns ssh://, the user and "@" only when a user is
\* given, the host, ":" and the port only when a non-zero port is given, then
\* the raw path; open_workspace with is_ssh and a non-empty host spawns the
\* editor once, with that URI as its only argument.
Thm_C7 ==
    /\ handler = "build_ssh_uri" =>
          /\ ret = ExpectedUri(arg[1], arg[2], arg[3], arg[4])
          /\ (arg = <<H_box1, P_srv_app, U_dev, 2222>> => ret = X_scenario3)
    /\ (handler = "open_workspace" /\ arg[2] /\ arg[3] \notin {None, <<>>}) =>
          /\ Len(spawned) = 1
          /\ spawned[1].call = "Popen"
          /\ spawned[1].branch = "ssh"
          /\ spawned[1].argv = <<S_zed, ExpectedUri(arg[3], arg[1], arg[4], arg[5])>>

Wit_C7 ==
    /\ handler = "open_workspace"
    /\ arg = <<P_srv_app, TRUE, H_box1, U_dev, 2222>>
    /\ spawned = <<Popen("ssh", <<S_zed, X_scenario3>>)>>

\* ------------------------------------------------------------------ C8
\* C8: normalize is idempotent, and its output has no backslash, no "//", no
\* upper-case character and no trailing slash unless it is "/".
Thm_C8 ==
    handler = "normalize" =>
        /\ normalize(ret) = ret
        /\ \A i \in DOMAIN ret : ret[i] # "\\" /\ ret[i] \notin UpperChars
        /\ \A i \in 1..(Len(ret) - 1) : ~(ret[i] = "/" /\ ret[i + 1] = "/")
        /\ (ret # <<>> /\ ret[Len(ret)] = "/") => ret = <<"/">>

Wit_C8 ==
    /\ handler = "normalize"
    /\ arg = << <<"A", "\\", "/", "/">> >>
    /\ ret = <<"a">>

\* ------------------------------------------------------------------ C9
\* The final segment of a raw path: what follows the last separator once
\* trailing separators are dropped; the whole path when that is empty.
RECURSIVE DropTrailingSeps(_)
DropTrailingSeps(p) ==
    IF p # <<>> /\ IsSep(p[Len(p)]) THEN DropTrailingSeps(SubSeq(p, 1, Len(p) - 1)) ELSE p

FinalSegment(p) ==
    LET q    == DropTrailingSeps(p)
        cuts == {i \in DOMAIN q : IsSep(q[i])}
        from == IF cuts = {} THEN 1 ELSE 1 + CHOOSE i \in cuts : \A j \in cuts : j <= i
        seg  == SubSeq(q, from, Len(q))
    IN  IF seg = <<>> THEN p ELSE seg

ConnectionSuffix(w) ==
    IF Get(w, "is_ssh", FALSE) THEN S_ssh_open \o w.ssh_host \o <<")">>
    ELSE IF Get(w, "is_wsl", FALSE) THEN S_wsl_suffix
    ELSE <<>>

\* The first character upper-cased, the others as they are.
UpperFirst(s) == IF s = <<>> THEN s ELSE <<Upper(s[1])>> \o Tail(s)

\* The first character upper-cased, the others lower-cased.
UpperFirstLowerRest(s) ==
    [i \in DOMAIN s |-> IF i = 1 THEN Upper(s[i]) ELSE Lower(s[i])]

\* The title the claim gives a record, and the title as amended.
TitleAsClaimed(w) == UpperFirst(FinalSegment(w.path)) \o ConnectionSuffix(w)
TitleAsAmended(w) == UpperFirstLowerRest(FinalSegment(w.path)) \o ConnectionSuffix(w)

\* Every entry of the response presents a filtered record under its title in
\* titles (titles[j] is the title of filtered[j]), and every filtered record
\* is presented.
PresentsTitles(titles) ==
    /\ \A i \in DOMAIN results :
          \E j \in DOMAIN filtered :
              /\ results[i].SubTitle = filtered[j].path
              /\ results[i].Title = titles[j]
    /\ \A j \in DOMAIN filtered :
          \E i \in DOMAIN results :
              LowerStr(Strip(results[i].Title)) = LowerStr(Strip(titles[j]))

\* C9 as stated, for the records of workspace rows: the title is the final
\* segment with only its first character upper-cased and the others as in the
\* path, then the connection suffix.
CE_C9 ==
    (handler = "query" /\ DbRead /\ workspaces # <<>>) =>
        PresentsTitles([j \in DOMAIN filtered |-> TitleAsClaimed(filtered[j])])

\* C9 as amended: the title of every record that passed the filter is the
\* final segment with its first character upper-cased and all others
\* lower-cased, then the connection suffix.
Thm_C9 ==
    (handler = "query" /\ workspaces # <<>>) =>
        PresentsTitles([j \in DOMAIN filtered |-> TitleAsAmended(filtered[j])])

T_Myapp == <<"M", "y", "a", "p", "p">>
Wit_C9 ==
    /\ handler = "query"
    /\ Len(results) = 1
    /\ results[1].SubTitle = P_win_myApp
    /\ results[1].Title = T_Myapp \o S_ssh_open \o H_box1 \o <<")">>

\* ------------------------------------------------------------------ C10
EndsWith(s, suf) ==
    Len(s) >= Len(suf) /\ SubSeq(s, Len(s) - Len(suf) + 1, Len(s)) = suf

\* The connection type a title or context label shows.
ShownKind(title) ==
    IF Contains(title, S_lbl_ssh_open) THEN "ssh"
    ELSE IF EndsWith(title, S_lbl_wsl) THEN "wsl"
    ELSE "local"

\* C10: replaying a workspace entry's action descriptor, or the action of its
\* context menu, takes the launch branch of the connection type its title or
\* label shows.
CE_C10 ==
    /\ (handler = "open_workspace" /\ DbRead) =>
          \A c \in Range(spawned) : c.branch = ShownKind(selected[1].Title)
    /\ (handler = "open_in_zed" /\ DbRead) =>
          \A c \in Range(spawned) : c.branch = ShownKind(menu[1].Title)
====
